---- MODULE Spec2Model ----
(***************************************************************************)
(* Brute-force frequent-itemset enumeration and association-rule           *)
(* derivation (brute_force.py).                                            *)
(*                                                                         *)
(* Items are integers; their numeric order stands for the string order of  *)
(* the labels ("A" < "B" < "C" is 1 < 2 < 3).                              *)
(* A transaction is the set of its items (the code only ever asks          *)
(* membership of a transaction: the universe comprehension and issubset).  *)
(* A float is an IEEE-754 double: supports and confidences are the         *)
(* correctly rounded quotients the interpreter computes, and a threshold   *)
(* written p/q is the double nearest to it.                                *)
(* The order in which a frozenset of strings iterates depends on the       *)
(* interpreter's hash seed and on the set's own table: every frozenset     *)
(* object iterates in some order of its own, the same each time it is      *)
(* iterated.  An entry of the support table keeps, next to the key, the    *)
(* order the key object iterates in.                                       *)
(* evaluated records the candidates the for loop has evaluated so far; run *)
(* and prev keep the output of a first process for a second one.           *)
(***************************************************************************)
EXTENDS Integers, Sequences, FiniteSets, TLC

NItems == 2
MaxTx == 2
MaxTable == 2
SupDen == 1

Items == 1..NItems

\* The transactions of the concrete scenario: [{A,B}, {A,B,C}, {A}, {B,C}].
Scenario == << {1, 2}, {1, 2, 3}, {1}, {2, 3} >>

\* Six transactions, [A,B] four times, [A] and []: the supports 4/6 and 5/6
\* are not representable and their quotient rounds below 0.8.
Sixths == << {1, 2}, {1, 2}, {1, 2}, {1, 2}, {1}, {} >>

\* Ten transactions, [A,C] six times, [A], [A,B] twice and [B]: 0.2 / 0.3
\* and 0.6 / 0.9 round to different doubles.
Tenths == << {1, 3}, {1, 3}, {1, 3}, {1, 3}, {1, 3}, {1, 3}, {1},
             {1, 2}, {1, 2}, {2} >>

\* Thresholds handed to the two functions, as the decimal numerator /
\* denominator.
MinSupports == { <<0, 1>>, <<1, 4>>, <<1, 2>>, <<1, 1>>, <<11, 10>> }
MinConfidences == { <<1, 2>>, <<3, 5>>, <<4, 5>>, <<1, 1>> }

\* a transaction over Items as a number, to list transactions in one order
RECURSIVE Code(_)
Code(S) == IF S = {} THEN 0 ELSE LET x == CHOOSE y \in S : TRUE
                                 IN 2 ^ (x - 1) + Code(S \ {x})

\* Every bag of up to MaxTx transactions over Items, as the list of its
\* transactions in non-decreasing Code: the code only counts the
\* transactions that contain an itemset and collects their items, whatever
\* their positions.
TxLists ==
    { t \in UNION { [1..n -> SUBSET Items] : n \in 0..MaxTx } :
        \A i \in 1..(Len(t) - 1) : Code(t[i]) <= Code(t[i + 1]) }

\* The inputs (transactions, min_support): the lists above with every
\* threshold, and the three given lists with thresholds between their
\* supports.
Inputs ==
    (TxLists \X MinSupports)
    \cup { << Scenario, <<1, 4>> >>, << Scenario, <<1, 2>> >>, << Scenario, <<3, 4>> >>,
           << Sixths, <<1, 2>> >>, << Tenths, <<1, 5>> >> }

VARIABLES transactions, min_support, pc, n_tx, unique_items,
          support_map, results, k, candidates, ci, freq_this_k, evaluated,
          min_confidence, rules, run, prev

vars == << transactions, min_support, pc, n_tx, unique_items,
           support_map, results, k, candidates, ci, freq_this_k, evaluated,
           min_confidence, rules, run, prev >>

----------------------------------------------------------------------------
(* Values *)

Range(s) == { s[i] : i \in 1..Len(s) }

\* the orders a set can iterate in
RECURSIVE Perms(_)
Perms(S) ==
    IF S = {} THEN { <<>> }
    ELSE UNION { { <<x>> \o p : p \in Perms(S \ {x}) } : x \in S }

\* Python's comparison of two tuples of items
RECURSIVE TupleLess(_, _)
TupleLess(s, t) ==
    IF s = <<>> THEN t # <<>>
    ELSE IF t = <<>> THEN FALSE
    ELSE IF Head(s) # Head(t) THEN Head(s) < Head(t)
    ELSE TupleLess(Tail(s), Tail(t))

Min(S) == CHOOSE x \in S : \A y \in S : x <= y

\* sorted(S)
RECURSIVE Sorted(_)
Sorted(S) == IF S = {} THEN <<>> ELSE <<Min(S)>> \o Sorted(S \ {Min(S)})

\* itertools.combinations(pool, r): tuples of positions in increasing order,
\* emitted in lexicographic order of the positions
RECURSIVE Combinations(_, _)
Combinations(pool, r) ==
    IF r = 0 THEN << <<>> >>
    ELSE IF Len(pool) < r THEN <<>>
    ELSE LET withHead == Combinations(Tail(pool), r - 1)
             without == Combinations(Tail(pool), r)
         IN [ i \in 1..Len(withHead) |-> <<Head(pool)>> \o withHead[i] ] \o without

----------------------------------------------------------------------------
(* Floats: IEEE-754 binary64, non-negative.  A float is << e, hi, lo >>, the *)
(* value (hi * 2^26 + lo) * 2^e with a 53-bit significand: 2^26 <= hi <      *)
(* 2^27 and 0 <= lo < 2^26; zero is << 0, 0, 0 >>.  Every value has one      *)
(* representation, so == of two floats is equality of the tuples.  The       *)
(* values here are far from the ends of the exponent range; the integers    *)
(* divided are below 2^18.                                                   *)

Base == 2 ^ 26
Chunk == 2 ^ 13

FZero == << 0, 0, 0 >>

\* operations on a 54-bit natural kept as << high, low >> in base 2^26
PairDbl(p) == << 2 * p[1] + ((2 * p[2]) \div Base), (2 * p[2]) % Base >>
PairGeq(p, q) == p[1] > q[1] \/ (p[1] = q[1] /\ p[2] >= q[2])
PairSub(p, q) ==
    IF p[2] >= q[2] THEN << p[1] - q[1], p[2] - q[2] >>
    ELSE << p[1] - q[1] - 1, p[2] + Base - q[2] >>

\* the significand q at exponent e, one unit in the last place up if roundUp
FRound(e, q, roundUp) ==
    IF ~roundUp THEN << e, q[1], q[2] >>
    ELSE IF q[2] + 1 < Base THEN << e, q[1], q[2] + 1 >>
    ELSE IF q[1] + 1 < 2 * Base THEN << e, q[1] + 1, 0 >>
    ELSE << e + 1, Base, 0 >>

\* a / n scaled by powers of two until n <= a < 2n
RECURSIVE Normalise(_, _, _)
Normalise(a, n, e) ==
    IF a < n THEN Normalise(2 * a, n, e - 1)
    ELSE IF a >= 2 * n THEN Normalise(a, 2 * n, e + 1)
    ELSE << a, n, e >>

\* int / int (true division) of small naturals: the double nearest a / n,
\* ties to even
IntDiv(a, n) ==
    IF a = 0 THEN FZero
    ELSE LET s == Normalise(a, n, 0)
             d == s[2]
             r0 == s[1] - d
             d1 == (r0 * Chunk) \div d
             r1 == (r0 * Chunk) % d
             d2 == (r1 * Chunk) \div d
             r2 == (r1 * Chunk) % d
             d3 == (r2 * Chunk) \div d
             r3 == (r2 * Chunk) % d
             d4 == (r3 * Chunk) \div d
             r4 == (r3 * Chunk) % d
             q == << Base + d1 * Chunk + d2, d3 * Chunk + d4 >>
         IN FRound(s[3] - 52, q,
                   2 * r4 > d \/ (2 * r4 = d /\ q[2] % 2 = 1))

\* one step of long division in base 2^13 by d, for a remainder r < d: the
\* next digit of the quotient, floor(r * 2^13 / d), and the new remainder.
\* The digit is estimated from the leading 17 bits of r and d, never above and
\* at most one below; the remainder r * 2^13 - digit * d is formed limb by
\* limb, the limbs being the 13-bit halves of the pairs.
DivStep(r, d) ==
    LET est == ((r[1] \div 2 ^ 10) * Chunk) \div ((d[1] \div 2 ^ 10) + 1)
        t0 == 0 - est * (d[2] % Chunk)
        t1 == (r[2] % Chunk) - est * (d[2] \div Chunk) + (t0 \div Chunk)
        t2 == (r[2] \div Chunk) - est * (d[1] % Chunk) + (t1 \div Chunk)
        t3 == (r[1] % Chunk) - est * (d[1] \div Chunk) + (t2 \div Chunk)
        t4 == (r[1] \div Chunk) + (t3 \div Chunk)
        rem == << t4 * Base + (t3 % Chunk) * Chunk + (t2 % Chunk),
                  (t1 % Chunk) * Chunk + (t0 % Chunk) >>
    IN IF PairGeq(rem, d) THEN << est + 1, PairSub(rem, d) >> ELSE << est, rem >>

\* float / float for y > 0: the double nearest the quotient, ties to even.
\* The quotient of the significands has 53 bits: the leading one, and four
\* digits of 13 bits.
FDiv(x, y) ==
    IF x[2] = 0 THEN FZero
    ELSE LET mx == << x[2], x[3] >>
             my == << y[2], y[3] >>
             big == PairGeq(mx, my)
             r0 == IF big THEN PairSub(mx, my) ELSE PairSub(PairDbl(mx), my)
             e == IF big THEN x[1] - y[1] - 52 ELSE x[1] - y[1] - 53
             s1 == DivStep(r0, my)
             s2 == DivStep(s1[2], my)
             s3 == DivStep(s2[2], my)
             s4 == DivStep(s3[2], my)
             q == << Base + s1[1] * Chunk + s2[1], s3[1] * Chunk + s4[1] >>
             twice == PairDbl(s4[2])
         IN FRound(e, q,
                   (twice # my /\ PairGeq(twice, my))
                   \/ (twice = my /\ q[2] % 2 = 1))

\* x >= y
FGeq(x, y) ==
    IF y[2] = 0 THEN TRUE
    ELSE IF x[2] = 0 THEN FALSE
    ELSE \/ x[1] > y[1]
         \/ x[1] = y[1] /\ PairGeq(<< x[2], x[3] >>, << y[2], y[3] >>)

\* x > y
FGt(x, y) == x # y /\ FGeq(x, y)

\* the float a threshold written p/q is passed as: the double nearest p/q
FloatOf(t) == IntDiv(t[1], t[2])

----------------------------------------------------------------------------
(* The support table: a dict, keys in insertion order.  An entry holds the  *)
(* key (a frozenset), the order the key object iterates in, and the value.  *)

DictKeys(d) == [ i \in 1..Len(d) |-> d[i].key ]
DictKeySet(d) == { d[i].key : i \in 1..Len(d) }
DictHas(d, key) == key \in DictKeySet(d)
DictGet(d, key) == (CHOOSE i \in 1..Len(d) : d[i].key = key)
DictVal(d, key) == d[DictGet(d, key)].val
DictIter(d, key) == d[DictGet(d, key)].iter

\* d[key] = val, key being an object that iterates in the order iter; an
\* equal key already in the dict stays, with the new value
DictSet(d, key, iter, val) ==
    IF DictHas(d, key)
    THEN [ i \in 1..Len(d) |-> IF d[i].key = key THEN [d[i] EXCEPT !.val = val] ELSE d[i] ]
    ELSE Append(d, [key |-> key, iter |-> iter, val |-> val])

----------------------------------------------------------------------------
(* frequent_itemsets_bruteforce *)

\* counts the transactions equal to the itemset
support_count_equal(txs, itemset) ==
    Cardinality({ i \in 1..Len(txs) : itemset = txs[i] })

\* counts the transactions sharing an item with the itemset
support_count_any(txs, itemset) ==
    Cardinality({ i \in 1..Len(txs) : itemset \cap txs[i] # {} })

\* _support_count
support_count(txs, itemset) ==
    Cardinality({ i \in 1..Len(txs) : itemset \subseteq txs[i] })

\* unique_items = sorted({...}, reverse=True)
UniqueItems_descending(txs) ==
    LET s == Sorted(UNION { txs[i] : i \in 1..Len(txs) })
    IN [ i \in 1..Len(s) |-> s[Len(s) + 1 - i] ]

\* unique_items = sorted({i for t in transactions for i in t})
UniqueItems(txs) == Sorted(UNION { txs[i] : i \in 1..Len(txs) })

\* candidates = [frozenset(c) for c in itertools.combinations(unique_items, k)]
Candidates(items, size) ==
    LET c == Combinations(items, size)
    IN [ i \in 1..Len(c) |-> Range(c[i]) ]

\* if sup > min_support
MeetsSupport_strict(sup, ms) == FGt(sup, ms)

\* if sup <= min_support
MeetsSupport_flipped(sup, ms) == FGeq(ms, sup)

\* if sup >= min_support
MeetsSupport(sup, ms) == FGeq(sup, ms)

\* breaks when fewer than two candidates were retained
LevelEmpty_one(freq) == Len(freq) <= 1

\* if not freq_this_k
LevelEmpty(freq) == freq = <<>>

\* k += 2
NextK_skip(kk) == kk + 2

\* k += 1
NextK(kk) == kk + 1

Init ==
    /\ \E input \in Inputs :
          /\ transactions = input[1]
          /\ min_support = input[2]
    /\ pc = "while"
    /\ n_tx = Len(transactions)
    /\ unique_items = UniqueItems(transactions)
    /\ support_map = <<>>
    /\ results = <<>>
    /\ k = 1
    /\ candidates = <<>>
    /\ ci = 1
    /\ freq_this_k = <<>>
    /\ evaluated = {}
    /\ min_confidence = <<0, 1>>
    /\ rules = <<>>
    /\ run = 1
    /\ prev = <<>>

\* top of the while loop: the candidates of size k
GenCandidates ==
    /\ pc = "while"
    /\ candidates' = Candidates(unique_items, k)
    /\ freq_this_k' = <<>>
    /\ ci' = 1
    /\ pc' = "for"
    /\ UNCHANGED << transactions, min_support, n_tx, unique_items,
                    support_map, results, k, evaluated, min_confidence, rules,
                    run, prev >>

\* one iteration of the for loop over the candidates; tuple(cand) is the
\* order the candidate iterates in
EvalCandidate ==
    /\ pc = "for"
    /\ ci <= Len(candidates)
    /\ LET cand == candidates[ci]
           sup_count == support_count(transactions, cand)
       IN /\ evaluated' = evaluated \cup { cand }
          /\ IF n_tx = 0
             THEN \* ZeroDivisionError
                  /\ pc' = "error"
                  /\ UNCHANGED << support_map, freq_this_k, results, ci >>
             ELSE LET sup == IntDiv(sup_count, n_tx)
                  IN /\ pc' = "for"
                     /\ ci' = ci + 1
                     /\ IF MeetsSupport(sup, FloatOf(min_support))
                        THEN \E tup \in Perms(cand) :
                                /\ support_map' = DictSet(support_map, cand, tup, sup)
                                /\ freq_this_k' = Append(freq_this_k, cand)
                                /\ results' = Append(results,
                                       [itemset |-> tup, support |-> sup])
                        ELSE UNCHANGED << support_map, freq_this_k, results >>
    /\ UNCHANGED << transactions, min_support, n_tx, unique_items,
                    k, candidates, min_confidence, rules, run, prev >>

\* the for loop is over and some candidate was retained: k += 1
LevelContinue ==
    /\ pc = "for"
    /\ ci > Len(candidates)
    /\ ~LevelEmpty(freq_this_k)
    /\ k' = NextK(k)
    /\ pc' = "while"
    /\ UNCHANGED << transactions, min_support, n_tx, unique_items,
                    support_map, results, candidates, ci, freq_this_k, evaluated,
                    min_confidence, rules, run, prev >>

\* the for loop is over and no candidate was retained: break, return
LevelBreak ==
    /\ pc = "for"
    /\ ci > Len(candidates)
    /\ LevelEmpty(freq_this_k)
    /\ pc' = "returned"
    /\ UNCHANGED << transactions, min_support, n_tx, unique_items,
                    support_map, results, k, candidates, ci, freq_this_k, evaluated,
                    min_confidence, rules, run, prev >>

----------------------------------------------------------------------------
(* association_rules_from_frequents *)

\* frequents = [iset for iset in support_map.keys() if len(iset) >= 2]
Frequents(table) == SelectSeq(DictKeys(table), LAMBDA L : Cardinality(L) >= 2)

\* if confidence > min_confidence
MeetsConfidence_strict(confidence, mc) == FGt(confidence, mc)

\* if confidence >= min_confidence
MeetsConfidence(confidence, mc) == FGeq(confidence, mc)

\* the body of the innermost loop for one antecedent of L: the rule appended,
\* if any; mc is the float min_confidence
RuleOf(table, mc, L, antecedent) ==
    LET A == Range(antecedent)
        B == L \ A
        L_support == DictVal(table, L)
    IN IF B = {} THEN <<>>
       ELSE IF ~DictHas(table, A) THEN <<>>
       ELSE IF DictVal(table, A) = FZero THEN <<>>
       ELSE LET confidence == FDiv(L_support, DictVal(table, A))
            IN IF MeetsConfidence(confidence, mc)
               THEN << [antecedent |-> Sorted(A), consequent |-> Sorted(B),
                        support |-> L_support, confidence |-> confidence] >>
               ELSE <<>>

\* for antecedent in itertools.combinations(items, r)
RECURSIVE RulesOfCombos(_, _, _, _)
RulesOfCombos(table, mc, L, combos) ==
    IF combos = <<>> THEN <<>>
    ELSE RuleOf(table, mc, L, Head(combos)) \o RulesOfCombos(table, mc, L, Tail(combos))

\* for r in range(1, len(items)), from r upwards
RECURSIVE RulesOfSizes(_, _, _, _, _)
RulesOfSizes(table, mc, L, items, r) ==
    IF r >= Len(items) THEN <<>>
    ELSE RulesOfCombos(table, mc, L, Combinations(items, r))
         \o RulesOfSizes(table, mc, L, items, r + 1)

\* for L in frequents, items = list(L) being the order L iterates in
RECURSIVE RulesOfFrequents(_, _, _)
RulesOfFrequents(table, mc, frequents) ==
    IF frequents = <<>> THEN <<>>
    ELSE RulesOfSizes(table, mc, Head(frequents), DictIter(table, Head(frequents)), 1)
         \o RulesOfFrequents(table, mc, Tail(frequents))

\* key(x) < key(y) for key = (confidence, -support, antecedent)
KeyLess_ascending(x, y) ==
    \/ FGt(y.confidence, x.confidence)
    \/ /\ x.confidence = y.confidence
       /\ \/ FGt(x.support, y.support)
          \/ /\ x.support = y.support
             /\ TupleLess(x.antecedent, y.antecedent)

\* key(x) < key(y) for key = (-confidence, -support, antecedent)
KeyLess(x, y) ==
    \/ FGt(x.confidence, y.confidence)
    \/ /\ x.confidence = y.confidence
       /\ \/ FGt(x.support, y.support)
          \/ /\ x.support = y.support
             /\ TupleLess(x.antecedent, y.antecedent)

\* list.sort(key=...): a stable sort
RECURSIVE InsertRule(_, _)
InsertRule(sorted, x) ==
    IF sorted = <<>> THEN << x >>
    ELSE IF KeyLess(x, Head(sorted)) THEN << x >> \o sorted
    ELSE << Head(sorted) >> \o InsertRule(Tail(sorted), x)

RECURSIVE SortRules(_)
SortRules(rs) ==
    IF rs = <<>> THEN <<>>
    ELSE InsertRule(SortRules(SubSeq(rs, 1, Len(rs) - 1)), rs[Len(rs)])

\* mc is the float min_confidence
association_rules_from_frequents(table, mc) ==
    SortRules(RulesOfFrequents(table, mc, Frequents(table)))

\* the call of association_rules_from_frequents on the support table; a
\* second run is given the min_confidence of the first
Derive ==
    /\ pc = "returned"
    /\ \E mc \in (IF run = 2 THEN { min_confidence } ELSE MinConfidences) :
          /\ min_confidence' = mc
          /\ rules' = association_rules_from_frequents(support_map, FloatOf(mc))
    /\ pc' = "done"
    /\ UNCHANGED << transactions, min_support, n_tx, unique_items,
                    support_map, results, k, candidates, ci, freq_this_k, evaluated,
                    run, prev >>

Next == GenCandidates \/ EvalCandidate \/ LevelContinue \/ LevelBreak \/ Derive

Spec == Init /\ [][Next]_vars

\* the steps of frequent_itemsets_bruteforce: a call runs to completion
Enumerate == GenCandidates \/ EvalCandidate \/ LevelContinue \/ LevelBreak

FairSpec == Spec /\ WF_vars(Enumerate)

----------------------------------------------------------------------------
(* association_rules_from_frequents on an arbitrary support table *)

SupVals == { IntDiv(c, SupDen) : c \in 0..SupDen }

\* a key over Items iterating in one of its orders, with a support
SmallEntries ==
    UNION { { [key |-> K, iter |-> p, val |-> v] : p \in Perms(K), v \in SupVals } :
            K \in (SUBSET Items) \ {{}} }

\* every table of up to MaxTable entries over Items, in every insertion order
SmallTables ==
    { t \in UNION { [1..n -> SmallEntries] : n \in 0..MaxTable } :
        \A i, j \in 1..Len(t) : i # j => t[i].key # t[j].key }

\* a table of supports count / n, the keys iterating in ascending order
TableOf(keys, counts, n) ==
    [ i \in 1..Len(keys) |->
        [key |-> keys[i], iter |-> Sorted(keys[i]), val |-> IntDiv(counts[i], n)] ]

\* the table frequent_itemsets_bruteforce returns on Scenario with
\* min_support = 0.25
ScenarioTable ==
    TableOf(<< {1}, {2}, {3}, {1, 2}, {1, 3}, {2, 3}, {1, 2, 3} >>,
            << 3, 3, 2, 2, 1, 2, 1 >>, 4)

\* the table it returns on Sixths with min_support = 0.5
SixthsTable == TableOf(<< {1}, {2}, {1, 2} >>, << 5, 4, 4 >>, 6)

\* the table it returns on Tenths with min_support = 0.2
TenthsTable ==
    TableOf(<< {1}, {2}, {3}, {1, 2}, {1, 3} >>, << 9, 3, 6, 2, 6 >>, 10)

\* the entries of t at the positions I, the support at position z set to zero
SubTable(t, I, z) ==
    LET entry(i) == IF i = z THEN [t[i] EXCEPT !.val = FZero] ELSE t[i]
        F[i \in 0..Len(t)] ==
            IF i = 0 THEN <<>>
            ELSE IF i \in I THEN Append(F[i - 1], entry(i)) ELSE F[i - 1]
    IN F[Len(t)]

\* the tables with the keys and values of t, the keys iterating in any order
RECURSIVE Reiterated(_)
Reiterated(t) ==
    IF t = <<>> THEN { <<>> }
    ELSE { << [Head(t) EXCEPT !.iter = p] >> \o rest :
             p \in Perms(Head(t).key), rest \in Reiterated(Tail(t)) }

\* the three tables in every iteration order of their keys, and with entries
\* left out and at most one support zero
GivenTables ==
    UNION { Reiterated(t)
            \cup { SubTable(t, I, z) : I \in SUBSET (1..Len(t)), z \in 0..Len(t) } :
            t \in { ScenarioTable, SixthsTable, TenthsTable } }

Tables == SmallTables \cup GivenTables

InitDerive ==
    /\ support_map \in Tables
    /\ pc = "returned"
    /\ transactions = <<>>
    /\ min_support = <<1, 1>>
    /\ n_tx = 0
    /\ unique_items = <<>>
    /\ results = <<>>
    /\ k = 1
    /\ candidates = <<>>
    /\ ci = 1
    /\ freq_this_k = <<>>
    /\ evaluated = {}
    /\ min_confidence = <<0, 1>>
    /\ rules = <<>>
    /\ run = 1
    /\ prev = <<>>

NextDerive == Derive

SpecDerive == InitDerive /\ [][NextDerive]_vars

----------------------------------------------------------------------------
(* Two runs of the pipeline in two processes, on the same input *)

Rerun ==
    /\ pc = "done"
    /\ run = 1
    /\ run' = 2
    /\ prev' = << [results |-> results, support_map |-> support_map,
                   rules |-> rules, min_confidence |-> min_confidence] >>
    /\ pc' = "while"
    /\ support_map' = <<>>
    /\ results' = <<>>
    /\ k' = 1
    /\ candidates' = <<>>
    /\ ci' = 1
    /\ freq_this_k' = <<>>
    /\ evaluated' = {}
    /\ rules' = <<>>
    /\ UNCHANGED << transactions, min_support, n_tx, unique_items, min_confidence >>

NextTwoRuns == Next \/ Rerun

SpecTwoRuns == Init /\ [][NextTwoRuns]_vars

----------------------------------------------------------------------------
(* Properties *)

Returned == pc \in { "returned", "done" }

\* 1.0
FOne == IntDiv(1, 1)

\* min_support in (0, 1]
ValidSupport == min_support[1] > 0 /\ min_support[1] <= min_support[2]

Universe == UNION { transactions[i] : i \in 1..Len(transactions) }

ContainingCount(S) ==
    Cardinality({ i \in 1..Len(transactions) : \A x \in S : x \in transactions[i] })

\* the non-empty subsets of the universe whose support, count / n_tx as a
\* fraction, reaches the threshold min_support stands for
FrequentSets ==
    { S \in (SUBSET Universe) \ {{}} :
        /\ n_tx > 0
        /\ ContainingCount(S) * min_support[2] >= min_support[1] * n_tx }

RecordSets == { Range(results[i].itemset) : i \in 1..Len(results) }

IsAscending(t) == \A i, j \in 1..Len(t) : i < j => t[i] < t[j]

Ascending(S) == CHOOSE t \in [1..Cardinality(S) -> S] : Range(t) = S /\ IsAscending(t)

\* C1: with min_support in (0,1], the itemsets returned, as the keys of
\* support_map and as the records of the result list, each once, are exactly
\* the non-empty subsets of the universe whose support count / n_tx reaches
\* min_support, each stored with that support (the float count / n_tx).
C1_ExactlyFrequent ==
    (Returned /\ ValidSupport) =>
        /\ DictKeySet(support_map) = FrequentSets
        /\ Len(support_map) = Cardinality(FrequentSets)
        /\ RecordSets = FrequentSets
        /\ Len(results) = Cardinality(FrequentSets)
        /\ \A i \in 1..Len(support_map) :
              support_map[i].val = IntDiv(ContainingCount(support_map[i].key), n_tx)
        /\ \A i \in 1..Len(results) :
              /\ Len(results[i].itemset) = Cardinality(Range(results[i].itemset))
              /\ results[i].support
                   = IntDiv(ContainingCount(Range(results[i].itemset)), n_tx)

\* an itemset of support exactly min_support is retained next to a pair, and
\* some subset of the universe is left out
C1_Witness ==
    /\ Returned /\ ValidSupport
    /\ \E i \in 1..Len(support_map) :
          /\ support_map[i].val = FloatOf(min_support)
          /\ Cardinality(support_map[i].key) >= 2
    /\ \E S \in (SUBSET Universe) \ {{}} : ~DictHas(support_map, S)

ScenarioReturned ==
    /\ transactions = Scenario
    /\ min_support = <<1, 2>>
    /\ Returned

RecordPairs == { << Range(results[i].itemset), results[i].support >> : i \in 1..Len(results) }

\* C2, as stated: on the scenario the records are A (0.75), B (0.75), C (0.5)
\* and, of size 2, {A,B} (0.5) alone.
C2_ScenarioAsStated ==
    ScenarioReturned =>
        RecordPairs = { << {1}, IntDiv(3, 4) >>, << {2}, IntDiv(3, 4) >>,
                        << {3}, IntDiv(1, 2) >>, << {1, 2}, IntDiv(1, 2) >> }

\* C2: on the scenario the records are A (0.75), B (0.75), C (0.5), of size 2
\* {A,B} (0.5) and {B,C} (0.5), and nothing of size 3.
C2_Scenario ==
    ScenarioReturned =>
        /\ RecordPairs = { << {1}, IntDiv(3, 4) >>, << {2}, IntDiv(3, 4) >>,
                           << {3}, IntDiv(1, 2) >>, << {1, 2}, IntDiv(1, 2) >>,
                           << {2, 3}, IntDiv(1, 2) >> }
        /\ Len(results) = 5
        /\ k = 3

KeysAndValues(t) == [ i \in 1..Len(t) |-> << t[i].key, t[i].val >> ]

\* the three tables given to the rule deriver are the ones the enumerator
\* computes
GivenTablesAreComputed ==
    /\ (transactions = Scenario /\ min_support = <<1, 4>> /\ Returned) =>
          KeysAndValues(support_map) = KeysAndValues(ScenarioTable)
    /\ (transactions = Sixths /\ min_support = <<1, 2>> /\ Returned) =>
          KeysAndValues(support_map) = KeysAndValues(SixthsTable)
    /\ (transactions = Tenths /\ min_support = <<1, 5>> /\ Returned) =>
          KeysAndValues(support_map) = KeysAndValues(TenthsTable)

RuleTriples == [ i \in 1..Len(rules) |->
                   << rules[i].antecedent, rules[i].consequent, rules[i].confidence >> ]

\* the quotients of supports that are not representable are the rounded
\* ones: (4/6) / (5/6) is 0.7999999999999999, below 0.8, and 0.2 / 0.3 is
\* 0.6666666666666667, above 0.6 / 0.9 = 0.6666666666666666
RoundedConfidences ==
    /\ (transactions = Sixths /\ min_support = <<1, 2>> /\ pc = "done"
          /\ min_confidence = <<4, 5>>) =>
          RuleTriples = << << <<2>>, <<1>>, FOne >> >>
    /\ (transactions = Sixths /\ min_support = <<1, 2>> /\ pc = "done"
          /\ min_confidence = <<1, 2>>) =>
          RuleTriples = << << <<2>>, <<1>>, FOne >>,
                           << <<1>>, <<2>>, << -53, 107374182, 26843545 >> >> >>
    /\ (transactions = Tenths /\ min_support = <<1, 5>> /\ pc = "done"
          /\ min_confidence = <<3, 5>>) =>
          RuleTriples = << << <<3>>, <<1>>, FOne >>,
                           << <<2>>, <<1>>, << -53, 89478485, 22369622 >> >>,
                           << <<1>>, <<3>>, << -53, 89478485, 22369621 >> >> >>

C2_Witness == ScenarioReturned /\ Len(results) = 5 /\ {1, 2, 3} \in evaluated

\* C3: candidates of a size are evaluated only once every smaller size has
\* been evaluated in full and retained something; after the level that
\* retained nothing, nothing larger is generated, evaluated or emitted, and
\* the sizes in the output are 1..K without a gap.
C3_LevelStop ==
    /\ \A S \in evaluated : Cardinality(S) <= k
    /\ \A i \in 1..Len(candidates) : Cardinality(candidates[i]) <= k
    /\ \A j \in 1..(k - 1) :
          /\ \A S \in SUBSET Universe : Cardinality(S) = j => S \in evaluated
          /\ \E i \in 1..Len(support_map) : Cardinality(support_map[i].key) = j
    /\ \A i \in 1..Len(results) : \A j \in 1..Len(results[i].itemset) :
          \E h \in 1..Len(results) : Len(results[h].itemset) = j
    /\ Returned =>
          /\ freq_this_k = <<>>
          /\ \A S \in SUBSET Universe : Cardinality(S) = k => S \in evaluated
          /\ \A i \in 1..Len(support_map) : Cardinality(support_map[i].key) < k
          /\ \A i \in 1..Len(results) : Len(results[i].itemset) < k

\* the enumeration stopped at a level below the size of the universe
C3_Witness ==
    /\ Returned
    /\ k >= 2
    /\ k < Cardinality(Universe)
    /\ \E S \in SUBSET Universe : Cardinality(S) = k + 1 /\ S \notin evaluated

\* C4: the result list is ordered by size, and within a size in the
\* lexicographic order of the ascending item tuples; the support table holds
\* the same itemsets in the same order.
C4_Order ==
    /\ \A i, j \in 1..Len(results) :
          i < j =>
             LET a == Ascending(Range(results[i].itemset))
                 b == Ascending(Range(results[j].itemset))
             IN \/ Len(a) < Len(b)
                \/ Len(a) = Len(b) /\ TupleLess(a, b)
    /\ Len(support_map) = Len(results)
    /\ \A i \in 1..Len(results) : support_map[i].key = Range(results[i].itemset)

C4_Witness ==
    /\ Returned
    /\ \E i, j \in 1..Len(results) :
          i < j /\ Len(results[i].itemset) = 2 /\ Len(results[j].itemset) = 2
    /\ \E i \in 1..Len(results) : Len(results[i].itemset) = 3

\* support(L) / support(A), the float quotient of the two table values
Confidence(L, A) == FDiv(DictVal(support_map, L), DictVal(support_map, A))

\* the antecedents of L the rule deriver has to emit a rule for
RuleAntecedents(L) ==
    { A \in (SUBSET L) \ { {}, L } :
        /\ DictHas(support_map, A)
        /\ DictVal(support_map, A) # FZero
        /\ FGeq(Confidence(L, A), FloatOf(min_confidence)) }

ExpectedRules ==
    UNION { { [antecedent |-> Ascending(A), consequent |-> Ascending(L \ A),
               support |-> DictVal(support_map, L),
               confidence |-> Confidence(L, A)] :
              A \in RuleAntecedents(L) } :
            L \in { K \in DictKeySet(support_map) : Cardinality(K) >= 2 } }

\* C5: the rules returned for a support table are exactly, each once, the
\* pairs (A, L - A) for L in the table with |L| >= 2 and A a non-empty proper
\* subset of L that is in the table with non-zero support and has
\* support(L)/support(A) >= min_confidence, with support(L) and that
\* confidence, the quotient being the float quotient of the table's values.
C5_ExactRules ==
    pc = "done" =>
        /\ Range(rules) = ExpectedRules
        /\ Len(rules) = Cardinality(ExpectedRules)

\* a rule is emitted, a confidence falls short, one antecedent is missing
\* from the table and another has support zero
C5_Witness ==
    /\ pc = "done"
    /\ rules # <<>>
    /\ \E L \in DictKeySet(support_map) :
          /\ \E A \in (SUBSET L) \ { {}, L } :
                /\ DictHas(support_map, A)
                /\ DictVal(support_map, A) # FZero
                /\ A \notin RuleAntecedents(L)
    /\ \E L \in DictKeySet(support_map) :
          /\ \E A \in (SUBSET L) \ { {}, L } : ~DictHas(support_map, A)
    /\ \E L \in DictKeySet(support_map) :
          /\ \E A \in (SUBSET L) \ { {}, L } :
                DictHas(support_map, A) /\ DictVal(support_map, A) = FZero

\* (-confidence, -support, antecedent) of x <= that of y
KeyLeq(x, y) ==
    \/ x.confidence # y.confidence /\ FGeq(x.confidence, y.confidence)
    \/ /\ x.confidence = y.confidence
       /\ \/ x.support # y.support /\ FGeq(x.support, y.support)
          \/ /\ x.support = y.support
             /\ (x.antecedent = y.antecedent \/ TupleLess(x.antecedent, y.antecedent))

\* C6: the rules are sorted by confidence descending, then support
\* descending, then antecedent ascending, and the antecedent and the
\* consequent of every rule are in ascending item order.
C6_Sorted ==
    pc = "done" =>
        /\ \A i \in 1..(Len(rules) - 1) : KeyLeq(rules[i], rules[i + 1])
        /\ \A i \in 1..Len(rules) :
              IsAscending(rules[i].antecedent) /\ IsAscending(rules[i].consequent)

\* rules of different confidence, and rules tied on confidence and support
C6_Witness ==
    /\ pc = "done"
    /\ \E i, j \in 1..Len(rules) :
          /\ i < j
          /\ rules[i].confidence # rules[j].confidence
    /\ \E i, j \in 1..Len(rules) :
          /\ i < j
          /\ rules[i].confidence = rules[j].confidence
          /\ rules[i].support = rules[j].support
          /\ Len(rules[i].antecedent) >= 2

\* C7: a second run on the same transactions and thresholds returns the
\* same records and the same rules, position by position.
C7_TwoRunsIdentical ==
    (run = 2 /\ pc = "done" /\ min_confidence = prev[1].min_confidence) =>
        /\ results = prev[1].results
        /\ rules = prev[1].rules

\* the part of C7 that holds: the rules of the two runs are the same, and so
\* are the records up to the order of the items inside the itemset tuples
TwoRunsSameUpToItemOrder ==
    (run = 2 /\ pc = "done" /\ min_confidence = prev[1].min_confidence) =>
        /\ rules = prev[1].rules
        /\ Len(results) = Len(prev[1].results)
        /\ \A i \in 1..Len(results) :
              /\ Range(results[i].itemset) = Range(prev[1].results[i].itemset)
              /\ results[i].support = prev[1].results[i].support

NoItemMeets ==
    \A x \in Universe : ContainingCount({x}) * min_support[2] < min_support[1] * n_tx

\* C8: the division is never executed with n_tx = 0; with no transactions,
\* or with no single item reaching min_support, the records and the table are
\* empty, and the rules derived from an empty table are empty.
C8_EmptyIsNormal ==
    /\ pc # "error"
    /\ (Returned /\ n_tx = 0) =>
          results = <<>> /\ support_map = <<>> /\ evaluated = {}
    /\ (Returned /\ NoItemMeets) => results = <<>> /\ support_map = <<>>
    /\ (pc = "done" /\ support_map = <<>>) => rules = <<>>

C8_Witness ==
    /\ pc = "done"
    /\ n_tx = 0
    /\ results = <<>>
    /\ rules = <<>>

C8_WitnessThreshold ==
    /\ pc = "done"
    /\ Universe # {}
    /\ min_support[1] > min_support[2]
    /\ results = <<>>

\* what is left of the enumeration: the levels up to n + 1, each with its
\* generation step, its candidates and its exit
Measure ==
    LET n == Len(unique_items)
        W == 2 ^ n + 3
    IN IF pc = "done" THEN 0
       ELSE IF pc \in { "returned", "error" } THEN 1
       ELSE 2 + (n + 1 - k) * W
              + (IF pc = "while" THEN W - 1 ELSE Len(candidates) - ci + 2)

\* C9: the loop ends for every min_support, also those <= 0: k never exceeds
\* n + 1, level n + 1 has no candidate, every step brings the end nearer, the
\* only way out is a level that retained nothing, and the function returns.
C9_Terminates ==
    /\ [](/\ k <= Len(unique_items) + 1
          /\ (pc = "for" /\ k = Len(unique_items) + 1) => candidates = <<>>
          /\ Returned => (freq_this_k = <<>> /\ ci > Len(candidates))
          /\ Measure >= 0)
    /\ [][Measure' < Measure]_vars
    /\ <>Returned

\* every subset of the universe was retained under a threshold <= 0
C9_Witness ==
    /\ Returned
    /\ min_support[1] <= 0
    /\ Len(unique_items) >= 2
    /\ k = Len(unique_items) + 1
    /\ Len(results) = 2 ^ Len(unique_items) - 1

\* C10: a table produced with min_support in (0,1] is downward closed and
\* monotone, every support in it is positive, no antecedent is missing or
\* zero, and every confidence emitted lies in (0, 1].
C10_DownwardClosed ==
    ValidSupport =>
        /\ \A i \in 1..Len(support_map) :
              /\ support_map[i].val # FZero
              /\ \A A \in (SUBSET support_map[i].key) \ {{}} :
                    /\ DictHas(support_map, A)
                    /\ FGeq(DictVal(support_map, A), support_map[i].val)
        /\ \A i \in 1..Len(rules) :
              /\ rules[i].confidence # FZero
              /\ FGeq(FOne, rules[i].confidence)

\* a table with a triple, and a confidence below 1 that is a rounded quotient
C10_Witness ==
    /\ pc = "done"
    /\ ValidSupport
    /\ \E i \in 1..Len(support_map) : Cardinality(support_map[i].key) = 3
    /\ \E i \in 1..Len(rules) : rules[i].confidence # FOne

====
